---- MODULE Spec2Model ----
(***************************************************************************)
(* Model of src/src/private/openapi-adapter.ts: the translation of a       *)
(* JsonSchemaEx tree into an OpenAPI SchemaObject / ReferenceObject and    *)
(* the assembly of ContentObject, RequestBodyObject and ResponsesObject.   *)
(*                                                                         *)
(* Encoding of JavaScript values                                           *)
(*   object            a function from its keys to their values; a key     *)
(*                     whose value is undefined is not in the DOMAIN (an   *)
(*                     optional TypeScript property that reads undefined), *)
(*                     so {} is <<>>                                       *)
(*   array             a sequence                                          *)
(*   T | undefined     <<>> for undefined, <<v>> for the value v           *)
(*   union-typed field a one-key record naming the alternative:            *)
(*                       type                  [one |-> t] | [many |-> ts] *)
(*                       items                 [single |-> n] | [tuple |-> ns] *)
(*                       additionalProperties  [bool |-> b] | [node |-> n] *)
(*   a call            [ok |-> TRUE, def, val, warns] when it returns      *)
(*                     (def = FALSE: it returns undefined),                *)
(*                     [ok |-> FALSE, err, warns] when it throws; warns is *)
(*                     what the call wrote with console.warn, in order     *)
(***************************************************************************)
EXTENDS Integers, Sequences, FiniteSets, TLC

VARIABLES op, args, result

vars == <<op, args, result>>

\* ------------------------------------------------------------------------
\* Bounds of the explored inputs
\* ------------------------------------------------------------------------
MaxDepth == 2
MaxLen == 2
MaxTypes == 2
MaxResponses == 2

\* ------------------------------------------------------------------------
\* Helpers for the encoding
\* ------------------------------------------------------------------------
Range(s) == { s[i] : i \in DOMAIN s }

Opt(obj, key) == IF key \in DOMAIN obj THEN <<obj[key]>> ELSE <<>>

Return(v, w) == [ok |-> TRUE, def |-> TRUE, val |-> v, warns |-> w]

Undefined(w) == [ok |-> TRUE, def |-> FALSE, warns |-> w]

Throw(e, w) == [ok |-> FALSE, err |-> e, warns |-> w]

RangeError(tag) ==
  [name |-> "RangeError", message |-> "unknown JsonSchemaType: " \o tag]

\* console.warn('jsonSchemaToSchemaObject', message, context)
warn(message, context) ==
  [source |-> "jsonSchemaToSchemaObject", message |-> message,
   context |-> context]

\* apigateway.JsonSchemaType: the enum's values are these strings
JsonSchemaType ==
  {"null", "boolean", "object", "array", "number", "integer", "string"}

\* the checks of lines 93-113 without the one for id
LegacyFieldsWithoutId ==
  <<"additionalItems", "contains", "definitions", "dependencies",
    "patternProperties", "propertyNames">>

\* the fields the translator warns about, in the order of its checks
LegacyFields ==
  <<"additionalItems", "contains", "definitions", "dependencies", "id",
    "patternProperties", "propertyNames">>

\* the keys of the returned object literal whose value is computed by a
\* call, in the literal's order
ComputedKeys ==
  <<"additionalProperties", "allOf", "anyOf", "items", "not", "oneOf",
    "properties", "type">>

\* the keys of the returned object literal whose value is the field itself
CopiedKeys ==
  {"default", "description", "enum", "example", "exclusiveMaximum",
   "exclusiveMinimum", "format", "maxItems", "maxLength", "maxProperties",
   "maximum", "minItems", "minLength", "minProperties", "minimum",
   "multipleOf", "pattern", "required", "title", "uniqueItems"}

\* ------------------------------------------------------------------------
\* mapType
\* ------------------------------------------------------------------------
RECURSIVE mapTypeLoop(_, _, _)
mapTypeLoop(type, tags, i) ==
  IF i > Len(tags) THEN Return(type, <<>>)
  ELSE IF tags[i] \in JsonSchemaType THEN mapTypeLoop(type, tags, i + 1)
  ELSE Throw(RangeError(tags[i]), <<>>)

\* a mapType that validates a single tag only
mapTypeSingleOnly(type) ==
  IF type = <<>> THEN Undefined(<<>>)
  ELSE LET t == type[1]
       IN IF "many" \in DOMAIN t THEN Return(t, <<>>)
          ELSE mapTypeLoop(t, <<t.one>>, 1)

\* a mapType that treats an array of tags as the 'array' type
mapTypeAsArray(type) ==
  IF type = <<>> THEN Undefined(<<>>)
  ELSE LET t == type[1]
       IN IF "many" \in DOMAIN t
          THEN mapTypeLoop([one |-> "array"], t.many, 1)
          ELSE mapTypeLoop(t, <<t.one>>, 1)

mapType(type) ==
  IF type = <<>> THEN Undefined(<<>>)
  ELSE LET t == type[1]
       IN mapTypeLoop(t, IF "many" \in DOMAIN t THEN t.many ELSE <<t.one>>, 1)

\* ------------------------------------------------------------------------
\* jsonSchemaToSchemaObject and its helpers
\* ------------------------------------------------------------------------
RECURSIVE jsonSchemaToSchemaObject(_)
RECURSIVE mapArray(_, _, _, _)
RECURSIVE mapPropertiesLoop(_, _, _, _)

\* the warnings of lines 93-113
RECURSIVE LegacyWarnings(_, _)
LegacyWarnings(schema, i) ==
  IF i > Len(LegacyFields) THEN <<>>
  ELSE LET f == LegacyFields[i]
       IN (IF f \in DOMAIN schema
           THEN <<warn(f \o " is specified but ignored", f :> schema[f])>>
           ELSE <<>>) \o LegacyWarnings(schema, i + 1)

\* array.map(jsonSchemaToSchemaObject): element by element, in order
mapArray(array, i, out, warns) ==
  IF i > Len(array) THEN Return(out, warns)
  ELSE LET r == jsonSchemaToSchemaObject(array[i])
       IN IF r.ok
          THEN mapArray(array, i + 1, Append(out, r.val), warns \o r.warns)
          ELSE Throw(r.err, warns \o r.warns)

\* array && array.map(jsonSchemaToSchemaObject)
mapOptArray(array) ==
  IF array = <<>> THEN Undefined(<<>>) ELSE mapArray(array[1], 1, <<>>, <<>>)

\* not && jsonSchemaToSchemaObject(not)
mapNot(not) ==
  IF not = <<>> THEN Undefined(<<>>) ELSE jsonSchemaToSchemaObject(not[1])

mapAdditionalProperties(additionalProperties) ==
  IF additionalProperties = <<>> THEN Undefined(<<>>)
  ELSE LET a == additionalProperties[1]
       IN IF "bool" \in DOMAIN a THEN Return(a, <<>>)
          ELSE LET r == jsonSchemaToSchemaObject(a.node)
               IN IF r.ok THEN Return([node |-> r.val], r.warns) ELSE r

\* a mapItems that takes the first node of a tuple as the items
mapItemsFirstOfTuple(items) ==
  IF items = <<>> THEN Undefined(<<>>)
  ELSE LET it == items[1]
           w == IF "tuple" \in DOMAIN it
                THEN <<warn("JsonSchemaEx[] as items is ignored",
                            [items |-> it.tuple])>>
                ELSE <<>>
       IN IF "tuple" \in DOMAIN it /\ it.tuple = <<>> THEN Undefined(w)
          ELSE LET r == jsonSchemaToSchemaObject(
                          IF "tuple" \in DOMAIN it THEN it.tuple[1]
                          ELSE it.single)
               IN IF r.ok THEN Return([single |-> r.val], w \o r.warns)
                  ELSE Throw(r.err, w \o r.warns)

mapItems(items) ==
  IF items = <<>> THEN Undefined(<<>>)
  ELSE LET it == items[1]
       IN IF "tuple" \in DOMAIN it
          THEN Undefined(<<warn("JsonSchemaEx[] as items is ignored",
                                [items |-> it.tuple])>>)
          ELSE LET r == jsonSchemaToSchemaObject(it.single)
               IN IF r.ok THEN Return([single |-> r.val], r.warns) ELSE r

\* for (const key in properties): one fixed order per key set
mapPropertiesLoop(properties, todo, output, warns) ==
  IF todo = {} THEN Return(output, warns)
  ELSE LET key == CHOOSE k \in todo : TRUE
           r == jsonSchemaToSchemaObject(properties[key])
       IN IF r.ok
          THEN mapPropertiesLoop(properties, todo \ {key},
                                 output @@ (key :> r.val), warns \o r.warns)
          ELSE Throw(r.err, warns \o r.warns)

mapProperties(properties) ==
  IF properties = <<>> THEN Undefined(<<>>)
  ELSE mapPropertiesLoop(properties[1], DOMAIN properties[1], <<>>, <<>>)

\* the value of one computed key of the returned object literal
PropertyValue(schema, key) ==
  CASE key = "additionalProperties" ->
         mapAdditionalProperties(Opt(schema, key))
    [] key \in {"allOf", "anyOf", "oneOf"} -> mapOptArray(Opt(schema, key))
    [] key = "items" -> mapItems(Opt(schema, key))
    [] key = "not" -> mapNot(Opt(schema, key))
    [] key = "properties" -> mapProperties(Opt(schema, key))
    [] key = "type" -> mapType(Opt(schema, key))

\* the object literal of lines 124-153: the computed keys are evaluated in
\* the literal's order up to the first call that throws (stop); the copied
\* keys neither warn nor throw
ObjectLiteral(schema, warns) ==
  LET n == Len(ComputedKeys)
      r == [i \in 1..n |-> PropertyValue(schema, ComputedKeys[i])]
      thrown == { i \in 1..n : ~r[i].ok }
      stop == IF thrown = {} THEN n
              ELSE CHOOSE i \in thrown : \A j \in thrown : i <= j
      w(i) == IF i <= stop THEN r[i].warns ELSE <<>>
      all == warns \o w(1) \o w(2) \o w(3) \o w(4) \o w(5) \o w(6) \o w(7)
                   \o w(8)
      copied == [k \in CopiedKeys \cap DOMAIN schema |-> schema[k]]
      defined == { i \in 1..n : r[i].def }
      computed == [k \in { ComputedKeys[i] : i \in defined } |->
                     r[CHOOSE i \in defined : ComputedKeys[i] = k].val]
  IN IF thrown = {} THEN Return(copied @@ computed, all)
     ELSE Throw(r[stop].err, all)

\* a translator that builds the object literal before it looks at ref
jsonSchemaToSchemaObjectLateRef(schema) ==
  LET r == ObjectLiteral(schema, LegacyWarnings(schema, 1))
  IN IF r.ok /\ "ref" \in DOMAIN schema
     THEN Return("$ref" :> schema.ref, r.warns)
     ELSE r

\* a translator that looks at ref before it warns about the legacy fields
jsonSchemaToSchemaObjectRefFirst(schema) ==
  IF "ref" \in DOMAIN schema
  THEN LET otherProps == DOMAIN schema \ {"ref"}
       IN Return("$ref" :> schema.ref,
                 IF otherProps # {}
                 THEN <<warn("other properties than ref are ignored",
                             [otherProps |-> otherProps])>>
                 ELSE <<>>)
  ELSE ObjectLiteral(schema, LegacyWarnings(schema, 1))

jsonSchemaToSchemaObject(schema) ==
  LET legacy == LegacyWarnings(schema, 1)
  IN IF "ref" \in DOMAIN schema
     THEN LET otherProps == DOMAIN schema \ {"ref"}
          IN Return("$ref" :> schema.ref,
                    legacy \o
                    (IF otherProps # {}
                     THEN <<warn("other properties than ref are ignored",
                                 [otherProps |-> otherProps])>>
                     ELSE <<>>))
     ELSE ObjectLiteral(schema, legacy)

\* ------------------------------------------------------------------------
\* resolveResourceId (./utils): the name a stack gives to a resource token.
\* A stack is the function from the tokens it can resolve to their names.
\* ------------------------------------------------------------------------
resolveResourceId(stack, id) ==
  IF id # <<>> /\ id[1] \in DOMAIN stack THEN Return(stack[id[1]], <<>>)
  ELSE Throw([name |-> "UnresolvableReference"], <<>>)

\* Stack.of(restApi)
StackOf(restApi) == restApi.stack

\* restApi.buildOptions?.usePhysicalName
UsePhysicalNameOf(restApi) ==
  IF "buildOptions" \in DOMAIN restApi
  THEN Opt(restApi.buildOptions, "usePhysicalName")
  ELSE <<>>

TypeError == [name |-> "TypeError"]

\* ------------------------------------------------------------------------
\* modelMapToContentObject
\* ------------------------------------------------------------------------
\* a SchemaName that takes the physical name whenever the model has one
SchemaNameAlwaysPhysical(stack, model, usePhysicalName) ==
  IF model = <<>> THEN Throw(TypeError, <<>>)
  ELSE IF "physicalName" \in DOMAIN model[1]
  THEN Return(model[1].physicalName, <<>>)
  ELSE resolveResourceId(stack, Opt(model[1], "modelId"))

\* the template literal of lines 293-297; reading a property of, or applying
\* `in` to, a model that is null or undefined throws a TypeError
SchemaName(stack, model, usePhysicalName) ==
  IF model = <<>> THEN Throw(TypeError, <<>>)
  ELSE IF usePhysicalName = <<TRUE>> /\ "physicalName" \in DOMAIN model[1]
  THEN Return(model[1].physicalName, <<>>)
  ELSE resolveResourceId(stack, Opt(model[1], "modelId"))

\* a ContentEntry without the catch
ContentEntryNoCatch(stack, model, usePhysicalName) ==
  LET name == SchemaName(stack, model, usePhysicalName)
  IN IF name.ok
     THEN Return([schema |-> ("$ref" :> ("#/components/schemas/" \o name.val))],
                 <<>>)
     ELSE name

\* the try block and its catch, lines 290-305
ContentEntry(stack, model, usePhysicalName) ==
  LET name == SchemaName(stack, model, usePhysicalName)
  IN IF name.ok
     THEN Return([schema |-> ("$ref" :> ("#/components/schemas/" \o name.val))],
                 <<>>)
     ELSE Return([schema |-> <<>>], <<>>)

\* for (const contentType in modelMap): one fixed order per key set
RECURSIVE modelMapLoop(_, _, _, _, _)
modelMapLoop(stack, modelMap, usePhysicalName, todo, content) ==
  IF todo = {} THEN Return(content, <<>>)
  ELSE LET contentType == CHOOSE k \in todo : TRUE
           r == ContentEntry(stack, modelMap[contentType], usePhysicalName)
       IN IF r.ok
          THEN modelMapLoop(stack, modelMap, usePhysicalName,
                            todo \ {contentType},
                            (contentType :> r.val) @@ content)
          ELSE r

modelMapToContentObject(stack, modelMap, usePhysicalName) ==
  modelMapLoop(stack, modelMap, usePhysicalName, DOMAIN modelMap, <<>>)

\* ------------------------------------------------------------------------
\* requestModelsToRequestBody, methodResponsesToResponses
\* ------------------------------------------------------------------------
requestModelsToRequestBody(restApi, requestModels) ==
  LET content == modelMapToContentObject(StackOf(restApi), requestModels,
                                         UsePhysicalNameOf(restApi))
  IN IF content.ok THEN Return([content |-> content.val], <<>>) ELSE content

\* description ?? `${statusCode} response`
DescriptionOf(response) ==
  IF "description" \in DOMAIN response THEN response.description
  ELSE response.statusCode \o " response"

\* a ResponseObject that gives an empty content to a response without models
ResponseObjectEmptyContent(stack, response, usePhysicalName) ==
  LET content == modelMapToContentObject(
                   stack,
                   IF "responseModels" \in DOMAIN response
                   THEN response.responseModels ELSE <<>>,
                   usePhysicalName)
  IN IF content.ok
     THEN Return([description |-> DescriptionOf(response),
                  content |-> content.val], <<>>)
     ELSE content

\* the object assigned to responses[statusCode], lines 265-274
ResponseObject(stack, response, usePhysicalName) ==
  IF "responseModels" \in DOMAIN response
  THEN LET content == modelMapToContentObject(stack, response.responseModels,
                                              usePhysicalName)
       IN IF content.ok
          THEN Return([description |-> DescriptionOf(response),
                       content |-> content.val], <<>>)
          ELSE content
  ELSE Return([description |-> DescriptionOf(response)], <<>>)

RECURSIVE methodResponsesLoop(_, _, _, _)

\* a loop that keeps the first entry of a status code
RECURSIVE methodResponsesLoopKeepFirst(_, _, _, _)
methodResponsesLoopKeepFirst(restApi, methodResponses, i, responses) ==
  IF i > Len(methodResponses) THEN Return(responses, <<>>)
  ELSE LET response == methodResponses[i]
           r == ResponseObject(StackOf(restApi), response,
                               UsePhysicalNameOf(restApi))
       IN IF r.ok
          THEN methodResponsesLoopKeepFirst(
                 restApi, methodResponses, i + 1,
                 responses @@ (response.statusCode :> r.val))
          ELSE r

\* for (const response of methodResponses)
methodResponsesLoop(restApi, methodResponses, i, responses) ==
  IF i > Len(methodResponses) THEN Return(responses, <<>>)
  ELSE LET response == methodResponses[i]
           r == ResponseObject(StackOf(restApi), response,
                               UsePhysicalNameOf(restApi))
       IN IF r.ok
          THEN methodResponsesLoop(restApi, methodResponses, i + 1,
                                   (response.statusCode :> r.val) @@ responses)
          ELSE r

methodResponsesToResponses(restApi, methodResponses) ==
  methodResponsesLoop(restApi, methodResponses, 1, <<>>)

\* ------------------------------------------------------------------------
\* The explored inputs
\* ------------------------------------------------------------------------
SeqsUpTo(S, n) == UNION { [1..k -> S] : k \in 0..n }

\* "any" stands for a tag outside apigateway.JsonSchemaType
LeafSchemas ==
  { <<>>,
    [type |-> [one |-> "string"]],
    [type |-> [one |-> "any"]],
    [ref |-> "#/components/schemas/Pet"],
    [id |-> "urn:pet", description |-> "ID of the pet"] }

\* the trees that nest one child per level, MaxDepth levels deep
RECURSIVE Nested(_)
Nested(d) ==
  IF d = 0 THEN LeafSchemas
  ELSE LET kids == Nested(d - 1)
       IN LeafSchemas
          \cup { [not |-> k] : k \in kids }
          \cup { [items |-> [single |-> k]] : k \in kids }
          \cup { [items |-> [tuple |-> <<k>>]] : k \in kids }
          \cup { [additionalProperties |-> [node |-> k]] : k \in kids }
          \cup { [properties |-> [id |-> k]] : k \in kids }
          \cup { [allOf |-> <<k>>] : k \in kids }

\* the nodes with up to MaxLen leaves in one composition or tuple, or two
\* properties
Wide ==
  LET lists == SeqsUpTo(LeafSchemas, MaxLen)
  IN { [properties |-> [id |-> k[1], name |-> k[2]]] :
         k \in LeafSchemas \X LeafSchemas }
     \cup { [allOf |-> l] : l \in lists }
     \cup { [anyOf |-> l] : l \in lists }
     \cup { [oneOf |-> l] : l \in lists }
     \cup { [items |-> [tuple |-> l]] : l \in lists }

\* every field the translator copies, populated
Facets ==
  [additionalProperties |-> [bool |-> FALSE], default |-> "available",
   description |-> "A pet", enum |-> <<"available", "pending", "sold">>,
   example |-> "sold", exclusiveMaximum |-> TRUE, exclusiveMinimum |-> FALSE,
   format |-> "int64", maxItems |-> 3, maxLength |-> 8, maxProperties |-> 4,
   maximum |-> 100, minItems |-> 0, minLength |-> 1, minProperties |-> 0,
   minimum |-> 0, multipleOf |-> 2, pattern |-> "^[a-z]+$",
   required |-> <<"id", "name">>, title |-> "pet",
   type |-> [one |-> "object"], uniqueItems |-> TRUE]

\* every field the translator leaves out, populated
Legacy ==
  [additionalItems |-> <<[type |-> [one |-> "any"]]>>,
   contains |-> [type |-> [one |-> "any"]],
   definitions |-> [pet |-> [type |-> [one |-> "any"]]],
   dependencies |-> [id |-> <<"name">>],
   id |-> "urn:pet",
   patternProperties |-> [x |-> [id |-> "urn:x"]],
   propertyNames |-> [id |-> "urn:names"],
   schema |-> "http://json-schema.org/draft-04/schema#"]

Decorations ==
  { <<>>,
    Facets,
    [ref |-> "#/components/schemas/Pet"],
    [ref |-> "#/components/schemas/Pet", title |-> "ignored"],
    [ref |-> "#/components/schemas/Pet", type |-> [one |-> "any"]],
    [type |-> [one |-> "array"],
     items |-> [tuple |-> <<[type |-> [one |-> "any"]],
                            [id |-> "urn:pet"]>>]],
    [type |-> [many |-> <<"string", "null">>]],
    [type |-> [many |-> <<"string", "any">>]],
    [type |-> [one |-> "any"]],
    [schema |-> "http://json-schema.org/draft-04/schema#",
     title |-> "pet"],
    [id |-> "urn:pet", type |-> [one |-> "integer"]],
    Legacy,
    [ref |-> "#/components/schemas/Pet"] @@ Legacy }

InputSchemas ==
  { s @@ d : s \in Nested(MaxDepth) \cup Wide, d \in Decorations }

\* the stacks: the second cannot resolve Token.2
Stacks ==
  { ("Token.1" :> "PetModel") @@ ("Token.2" :> "NewPetModel"),
    ("Token.1" :> "PetModel") }

RestApis ==
  { [stack |-> st] @@ b :
      st \in Stacks,
      b \in { <<>>, [buildOptions |-> <<>>],
              [buildOptions |-> [usePhysicalName |-> FALSE]],
              [buildOptions |-> [usePhysicalName |-> TRUE]] } }

\* model handles: none, without an identifier, with one, with a physical name
Models ==
  { <<>>, << <<>> >>,
    <<[modelId |-> "Token.1"]>>,
    <<[modelId |-> "Token.2"]>>,
    <<[modelId |-> "Token.1", physicalName |-> "Pet"]>>,
    <<[modelId |-> "Token.2", physicalName |-> "NewPet"]>> }

ContentTypes == {"application/json", "application/xml", "text/plain"}

ModelMaps ==
  UNION { [cts -> Models] :
            cts \in { c \in SUBSET ContentTypes : Cardinality(c) <= MaxTypes } }

MethodResponses ==
  LET named == "application/json" :>
                 <<[modelId |-> "Token.2", physicalName |-> "NewPet"]>>
      mixed == ("application/json" :> <<[modelId |-> "Token.1"]>>)
                 @@ ("text/plain" :> <<>>)
  IN { [statusCode |-> "200"],
       [statusCode |-> "200", description |-> ""],
       [statusCode |-> "200", description |-> "Successful operation",
        responseModels |-> named],
       [statusCode |-> "200", responseModels |-> mixed],
       [statusCode |-> "404"],
       [statusCode |-> "404", description |-> "Not found"],
       [statusCode |-> "404", description |-> "", responseModels |-> named],
       [statusCode |-> "404", responseModels |-> <<>>] }

Calls ==
  { [fn |-> "jsonSchemaToSchemaObject", schema |-> s] : s \in InputSchemas }
  \cup { [fn |-> "requestModelsToRequestBody", restApi |-> a,
          requestModels |-> m] : a \in RestApis, m \in ModelMaps }
  \cup { [fn |-> "methodResponsesToResponses", restApi |-> a,
          methodResponses |-> l] :
           a \in RestApis, l \in SeqsUpTo(MethodResponses, MaxResponses) }

\* ------------------------------------------------------------------------
\* The calls
\* ------------------------------------------------------------------------
Init ==
  /\ op = "called"
  /\ args \in Calls
  /\ result = <<>>

Translate ==
  /\ op = "called"
  /\ args.fn = "jsonSchemaToSchemaObject"
  /\ op' = "returned"
  /\ result' = jsonSchemaToSchemaObject(args.schema)
  /\ UNCHANGED args

RequestBody ==
  /\ op = "called"
  /\ args.fn = "requestModelsToRequestBody"
  /\ op' = "returned"
  /\ result' = requestModelsToRequestBody(args.restApi, args.requestModels)
  /\ UNCHANGED args

Responses ==
  /\ op = "called"
  /\ args.fn = "methodResponsesToResponses"
  /\ op' = "returned"
  /\ result' = methodResponsesToResponses(args.restApi, args.methodResponses)
  /\ UNCHANGED args

Next == Translate \/ RequestBody \/ Responses

Spec == Init /\ [][Next]_vars

\* ------------------------------------------------------------------------
\* Vocabulary of the properties
\* ------------------------------------------------------------------------
Translated == op = "returned" /\ args.fn = "jsonSchemaToSchemaObject"

RequestBuilt == op = "returned" /\ args.fn = "requestModelsToRequestBody"

ResponsesBuilt == op = "returned" /\ args.fn = "methodResponsesToResponses"

RecognizedTags ==
  {"null", "boolean", "object", "array", "number", "integer", "string"}

TagsOf(n) ==
  IF "type" \notin DOMAIN n THEN {}
  ELSE IF "many" \in DOMAIN n.type THEN Range(n.type.many)
  ELSE {n.type.one}

UnknownType(n) == \E t \in TagsOf(n) : t \notin RecognizedTags

HasTuple(n) == "items" \in DOMAIN n /\ "tuple" \in DOMAIN n.items

\* the children held by allOf, anyOf, oneOf, not, properties, a single-node
\* items and a node-valued additionalProperties
ChildrenOf(n) ==
  UNION { Range(n[k]) : k \in {"allOf", "anyOf", "oneOf"} \cap DOMAIN n }
  \cup (IF "not" \in DOMAIN n THEN {n["not"]} ELSE {})
  \cup (IF "properties" \in DOMAIN n THEN Range(n.properties) ELSE {})
  \cup (IF "items" \in DOMAIN n /\ "single" \in DOMAIN n.items
        THEN {n.items.single} ELSE {})
  \cup (IF "additionalProperties" \in DOMAIN n
           /\ "node" \in DOMAIN n.additionalProperties
        THEN {n.additionalProperties.node} ELSE {})

\* the elements of a tuple-typed items
TupleOf(n) == IF HasTuple(n) THEN Range(n.items.tuple) ELSE {}

Without(n, keys) == [k \in DOMAIN n \ keys |-> n[k]]

\* ------------------------------------------------------------------------
\* C1
\* ------------------------------------------------------------------------
\* C1: jsonSchemaToSchemaObject returns a reference node exactly when the
\* input has ref set: with ref set it returns, and the result is exactly
\* {$ref: ref} whatever else the node holds; without ref a returned node has
\* no $ref key.
ReferenceExactlyWhenRef ==
  Translated =>
    IF "ref" \in DOMAIN args.schema
    THEN /\ result.ok
         /\ result.def
         /\ result.val = ("$ref" :> args.schema.ref)
    ELSE result.ok => (result.def /\ "$ref" \notin DOMAIN result.val)

\* a node with ref, an unrecognized type and nothing else is translated
RefWithUnknownTypeTranslated ==
  /\ Translated
  /\ DOMAIN args.schema = {"ref", "type"}
  /\ UnknownType(args.schema)

\* ------------------------------------------------------------------------
\* C2
\* ------------------------------------------------------------------------
RECURSIVE HoldsUnknownType(_)
\* n, or a node below it in allOf/anyOf/oneOf/not/properties/items/
\* additionalProperties, has an unrecognized type tag
HoldsUnknownType(n) ==
  \/ UnknownType(n)
  \/ \E c \in ChildrenOf(n) \cup TupleOf(n) : HoldsUnknownType(c)

RECURSIVE ReachesUnknownType(_)
\* the same, where no node from n down to the offending one has ref set and
\* no step goes through a tuple-typed items
ReachesUnknownType(n) ==
  /\ "ref" \notin DOMAIN n
  /\ \/ UnknownType(n)
     \/ \E c \in ChildrenOf(n) : ReachesUnknownType(c)

\* C2 as stated: every node that has, or has a descendant with, an
\* unrecognized type tag makes the call fail with the RangeError.
UnknownTypeAlwaysFails ==
  (Translated /\ HoldsUnknownType(args.schema)) =>
    (~result.ok /\ result.err.name = "RangeError")

\* C2 as amended: an unrecognized type tag (alone or in a sequence) on a
\* node without ref, or on a descendant reached through nodes without ref by
\* allOf/anyOf/oneOf/not/properties/single-node items/node-valued
\* additionalProperties, makes the whole call fail with the RangeError and
\* no schema node is returned.
ReachedUnknownTypeFails ==
  (Translated /\ ReachesUnknownType(args.schema)) =>
    /\ ~result.ok
    /\ result.err.name = "RangeError"
    /\ "val" \notin DOMAIN result

\* the offending tag sits two levels below the translated input
UnknownTypeReached ==
  /\ Translated
  /\ ReachesUnknownType(args.schema)
  /\ ~UnknownType(args.schema)
  /\ \A c \in ChildrenOf(args.schema) : ~UnknownType(c)

\* ------------------------------------------------------------------------
\* C3
\* ------------------------------------------------------------------------
SupportedFields ==
  {"additionalProperties", "allOf", "anyOf", "default", "description",
   "enum", "example", "exclusiveMaximum", "exclusiveMinimum", "format",
   "items", "maxItems", "maxLength", "maxProperties", "maximum",
   "minItems", "minLength", "minProperties", "minimum", "multipleOf",
   "not", "oneOf", "pattern", "properties", "required", "title", "type",
   "uniqueItems"}

RECURSIVE Supported(_)
\* a tree without ref, without legacy fields, with recognized type tags and
\* single-node items throughout
Supported(n) ==
  /\ DOMAIN n \subseteq SupportedFields
  /\ ~UnknownType(n)
  /\ ~HasTuple(n)
  /\ \A c \in ChildrenOf(n) : Supported(c)

SchemaRef(name) == [schema |-> ("$ref" :> ("#/components/schemas/" \o name))]

EmptySchema == [schema |-> <<>>]

TakesPhysicalName(model, usePhysicalName) ==
  /\ model # <<>>
  /\ usePhysicalName = <<TRUE>>
  /\ "physicalName" \in DOMAIN model[1]

ResolverSucceeds(stack, model) ==
  /\ model # <<>>
  /\ "modelId" \in DOMAIN model[1]
  /\ model[1].modelId \in DOMAIN stack

Resolves(stack, model, usePhysicalName) ==
  TakesPhysicalName(model, usePhysicalName) \/ ResolverSucceeds(stack, model)

\* C4: modelMapToContentObject never fails: a content type whose model
\* cannot be resolved gets {schema: {}}, the other content types get the
\* entry they get when the failing model is not in the map, and the output
\* has the keys of the input.
UnresolvedModelsDegrade ==
  RequestBuilt =>
    LET stack == args.restApi.stack
        use == UsePhysicalNameOf(args.restApi)
        models == args.requestModels
    IN /\ result.ok
       /\ DOMAIN result.val = {"content"}
       /\ DOMAIN result.val.content = DOMAIN models
       /\ \A bad \in DOMAIN models :
            ~Resolves(stack, models[bad], use) =>
              /\ result.val.content[bad] = EmptySchema
              /\ LET rest == modelMapToContentObject(
                               stack, Without(models, {bad}), use)
                 IN /\ rest.ok
                    /\ \A ct \in DOMAIN models \ {bad} :
                         result.val.content[ct] = rest.val[ct]

\* a map with a model the resolver rejects and a model that resolves has
\* been assembled
UnresolvedModelAssembled ==
  /\ RequestBuilt
  /\ \E a, b \in DOMAIN args.requestModels :
       /\ args.requestModels[a] # <<>>
       /\ "modelId" \in DOMAIN args.requestModels[a][1]
       /\ ~Resolves(args.restApi.stack, args.requestModels[a],
                    UsePhysicalNameOf(args.restApi))
       /\ Resolves(args.restApi.stack, args.requestModels[b],
                   UsePhysicalNameOf(args.restApi))

\* ------------------------------------------------------------------------
\* C5
\* ------------------------------------------------------------------------
\* C5: the entry of a model that resolves is {schema: {$ref:
\* "#/components/schemas/" + name}}; name is the physical name when
\* usePhysicalName is true and the model has one, and otherwise what the
\* resolver returns for the model's identifier.
SchemaNameChosen ==
  RequestBuilt =>
    LET stack == args.restApi.stack
        use == UsePhysicalNameOf(args.restApi)
        models == args.requestModels
    IN \A ct \in DOMAIN models :
         IF TakesPhysicalName(models[ct], use)
         THEN result.val.content[ct] = SchemaRef(models[ct][1].physicalName)
         ELSE ResolverSucceeds(stack, models[ct]) =>
                result.val.content[ct] = SchemaRef(stack[models[ct][1].modelId])

\* usePhysicalName is false or absent and a model with a physical name has
\* been named by the resolver
PhysicalNameNotTaken ==
  /\ RequestBuilt
  /\ UsePhysicalNameOf(args.restApi) # <<TRUE>>
  /\ \E ct \in DOMAIN args.requestModels :
       /\ ResolverSucceeds(args.restApi.stack, args.requestModels[ct])
       /\ "physicalName" \in DOMAIN args.requestModels[ct][1]

\* ------------------------------------------------------------------------
\* C6
\* ------------------------------------------------------------------------
IsLast(seq, i) == \A j \in DOMAIN seq : j > i => seq[j].statusCode # seq[i].statusCode

\* C6: the responses have exactly the status codes of the descriptors as
\* keys, and the entry of a status code is the one built from the last
\* descriptor with that status code.
LastDescriptorWins ==
  ResponsesBuilt =>
    LET seq == args.methodResponses
    IN /\ result.ok
       /\ DOMAIN result.val = { seq[i].statusCode : i \in DOMAIN seq }
       /\ \A i \in DOMAIN seq :
            IsLast(seq, i) =>
              result.val[seq[i].statusCode] =
                ResponseObject(args.restApi.stack, seq[i],
                               UsePhysicalNameOf(args.restApi)).val

\* two descriptors with the same status code and different entries
DuplicateStatusCodeBuilt ==
  /\ ResponsesBuilt
  /\ Len(args.methodResponses) = 2
  /\ args.methodResponses[1].statusCode = args.methodResponses[2].statusCode
  /\ DOMAIN args.methodResponses[1] # DOMAIN args.methodResponses[2]
  /\ Cardinality(DOMAIN result.val) = 1

TupleDiagnostic(n) ==
  [source |-> "jsonSchemaToSchemaObject",
   message |-> "JsonSchemaEx[] as items is ignored",
   context |-> [items |-> n.items.tuple]]

IgnoredDiagnostic(n) ==
  [source |-> "jsonSchemaToSchemaObject",
   message |-> "other properties than ref are ignored",
   context |-> [otherProps |-> DOMAIN n \ {"ref"}]]

\* a diagnostic about the items of n is among the warnings
ItemsDiagnosed(n, warns) ==
  \E i \in DOMAIN warns :
    \/ warns[i] = TupleDiagnostic(n)
    \/ "ref" \in DOMAIN n /\ warns[i] = IgnoredDiagnostic(n)

\* C8 as stated: a node with a tuple-typed items is translated without
\* failure, the output has no items, a diagnostic is recorded and the other
\* fields come out as they do without items.
TupleItemsNeverFail ==
  (Translated /\ HasTuple(args.schema)) =>
    LET without == jsonSchemaToSchemaObject(Without(args.schema, {"items"}))
    IN /\ result.ok
       /\ "items" \notin DOMAIN result.val
       /\ ItemsDiagnosed(args.schema, result.warns)
       /\ without.ok
       /\ result.val = without.val

\* C8 as amended: a tuple-typed items never makes the translation fail and
\* none of its elements is translated: the call fails exactly when it fails
\* without items (an unrecognized type tag reached in another field, with
\* the same error); whenever it returns, the output has no items and equals
\* the output without items, and a diagnostic about items is recorded: the
\* tuple diagnostic, added once to the warnings the node gives without
\* items, or with ref set the diagnostic listing the ignored fields.
TupleItemsDropped ==
  (Translated /\ HasTuple(args.schema)) =>
    LET n == args.schema
        without == jsonSchemaToSchemaObject(Without(n, {"items"}))
        w == without.warns
    IN /\ result.ok = without.ok
       /\ ~result.ok =>
            (result.err = without.err /\ result.err.name = "RangeError")
       /\ result.ok =>
            /\ result.val = without.val
            /\ "items" \notin DOMAIN result.val
            /\ ItemsDiagnosed(n, result.warns)
            /\ "ref" \notin DOMAIN n =>
                 \E k \in 0..Len(w) :
                   result.warns = SubSeq(w, 1, k) \o <<TupleDiagnostic(n)>>
                                    \o SubSeq(w, k + 1, Len(w))

\* a node without ref whose tuple holds an unrecognized type and which has
\* other fields is translated
TupleItemsTranslated ==
  /\ Translated
  /\ HasTuple(args.schema)
  /\ "ref" \notin DOMAIN args.schema
  /\ \E c \in TupleOf(args.schema) : UnknownType(c)
  /\ ChildrenOf(args.schema) # {}
  /\ result.ok

\* ------------------------------------------------------------------------
\* C9
\* ------------------------------------------------------------------------
EightLegacy ==
  {"additionalItems", "contains", "definitions", "dependencies", "id",
   "patternProperties", "propertyNames", "schema"}

SevenWarned == EightLegacy \ {"schema"}

LegacyDiagnostic(n, f) ==
  [source |-> "jsonSchemaToSchemaObject",
   message |-> f \o " is specified but ignored",
   context |-> f :> n[f]]

\* the translation of n without its legacy fields
Stripped(n) == jsonSchemaToSchemaObject(Without(n, EightLegacy))

\* the warnings w of the translation of n that its legacy fields add, the
\* translation without them being st
OwnWarnings(w, st) == SubSeq(w, 1, Len(w) - Len(st.warns))

\* the legacy fields of n change nothing but the warnings
LegacyOnlyWarns(r, st) ==
  /\ r.ok = st.ok
  /\ r.ok => (r.val = st.val /\ DOMAIN r.val \cap EightLegacy = {})
  /\ ~r.ok => r.err = st.err
  /\ r.warns = OwnWarnings(r.warns, st) \o st.warns

\* each of the fields is named, with its value, by one of the warnings
DiagnosedOnce(n, fields, warns) ==
  \A f \in fields :
    Cardinality({ i \in DOMAIN warns : warns[i] = LegacyDiagnostic(n, f) }) = 1

\* C9 as stated: on a node without ref each of the eight legacy fields that
\* is present causes one diagnostic naming it and its value, none of them is
\* in the output, and they do not abort the translation.
EightLegacyDiagnosed ==
  (Translated /\ "ref" \notin DOMAIN args.schema) =>
    LET n == args.schema
        st == Stripped(n)
    IN /\ LegacyOnlyWarns(result, st)
       /\ DiagnosedOnce(n, EightLegacy \cap DOMAIN n,
                        OwnWarnings(result.warns, st))

\* C9 as amended: on a node without ref each of the seven fields
\* additionalItems, contains, definitions, dependencies, id,
\* patternProperties, propertyNames that is present causes one diagnostic
\* naming it and its value; the schema meta-field causes none; none of the
\* eight is in the output and they do not abort the translation.
SevenLegacyDiagnosed ==
  (Translated /\ "ref" \notin DOMAIN args.schema) =>
    LET n == args.schema
        st == Stripped(n)
        own == OwnWarnings(result.warns, st)
    IN /\ LegacyOnlyWarns(result, st)
       /\ Len(own) = Cardinality(SevenWarned \cap DOMAIN n)
       /\ DiagnosedOnce(n, SevenWarned \cap DOMAIN n, own)

\* a node without ref with all eight legacy fields and children is
\* translated
AllLegacyTranslated ==
  /\ Translated
  /\ "ref" \notin DOMAIN args.schema
  /\ EightLegacy \subseteq DOMAIN args.schema
  /\ ChildrenOf(args.schema) # {}
  /\ result.ok

\* ------------------------------------------------------------------------
\* C10
\* ------------------------------------------------------------------------
\* C10 as stated: with ref set the only diagnostic is the one listing the
\* ignored fields, given when another field is set; no legacy, tuple or
\* child diagnostic and no error.
RefWarnsOnceAtMost ==
  (Translated /\ "ref" \in DOMAIN args.schema) =>
    /\ result.ok
    /\ result.warns = IF DOMAIN args.schema # {"ref"}
                      THEN <<IgnoredDiagnostic(args.schema)>>
                      ELSE <<>>

\* C10 as amended: with ref set the call returns at once and its
\* diagnostics are one per legacy field present among the seven the
\* translator warns about, then one listing the ignored fields when another
\* field is set (none when ref is the only field); no tuple diagnostic and
\* no diagnostic or error of a child.
RefWarnsLegacyThenIgnored ==
  (Translated /\ "ref" \in DOMAIN args.schema) =>
    LET n == args.schema
        legacy == SevenWarned \cap DOMAIN n
        k == Cardinality(legacy)
    IN /\ result.ok
       /\ Len(result.warns) = k + (IF DOMAIN n # {"ref"} THEN 1 ELSE 0)
       /\ \A f \in legacy :
            \E i \in 1..k : result.warns[i] = LegacyDiagnostic(n, f)
       /\ DOMAIN n # {"ref"} => result.warns[k + 1] = IgnoredDiagnostic(n)

\* a node with ref, the seven legacy fields and a child that would fail or
\* warn is translated
RefWithLegacyTranslated ==
  /\ Translated
  /\ "ref" \in DOMAIN args.schema
  /\ SevenWarned \subseteq DOMAIN args.schema
  /\ \E c \in ChildrenOf(args.schema) \cup TupleOf(args.schema) :
       HoldsUnknownType(c) \/ "id" \in DOMAIN c
====
